---- MODULE Spec2Model ----
(***************************************************************************)
(* Model of bits2511: the device setup plans of plans/gp_device_setup.py   *)
(* (the sequencer _custom_controls_setup and its eight steps) and the      *)
(* rate sweep of plans/rate_effect_plan.py.                                *)
(*                                                                         *)
(* A control point "L<n>" is line n of gp_device_setup.py, "R<n>" line n   *)
(* of rate_effect_plan.py.  "ret" and "raise" are the two ways a step (a   *)
(* generator) ends; "idle" is the RunEngine with no plan running.          *)
(***************************************************************************)
EXTENDS Integers, Sequences, FiniteSets, TLC

\* ------------------------------------------------------------------ bounds
\* Failures injected by the environment (timeouts of wait_for_connection,
\* failures of plan messages and of blocking calls) in one behaviour.
\* Lookups of devices missing from the registry are not counted.
MaxFailures == 1

\* rate_effect is called with first and last in 0..MaxRate, step in
\* 1..MaxStep and npts in 1..MaxNpts, or with its defaults.
MaxRate == 3
MaxStep == 2
MaxNpts == 2

\* ------------------------------------------------------- program constants
\* Faulty variant: setup_scaler1 listed before change_motor_srev.
functions_swapped ==
    << "enable_user_calcs", "setup_scaler1", "change_motor_srev",
       "change_noisy_signal_parameters", "setup_shutter",
       "setup_monochromator", "setup_temperature_positioner",
       "setup_area_detectors" >>

\* gp_device_setup.py:37-47, "NOTE: order is important"
functions ==
    << "enable_user_calcs", "change_motor_srev", "setup_scaler1",
       "change_noisy_signal_parameters", "setup_shutter",
       "setup_monochromator", "setup_temperature_positioner",
       "setup_area_detectors" >>

\* Faulty variant: except ComponentNotFound alone.
Tolerated_not_found_only == {"ComponentNotFound"}

\* Faulty variant: except Exception.
Tolerated_any_exception == {"ComponentNotFound", "TimeoutError", "Exception"}

\* gp_device_setup.py:51, except (ComponentNotFound, TimeoutError)
Tolerated == {"ComponentNotFound", "TimeoutError"}

\* Every failure kind derived from Exception; "Exception" stands for any
\* such kind other than the two above.
ExceptionKinds == {"ComponentNotFound", "TimeoutError", "Exception"}

\* Faulty variant: the step catches what the sequencer tolerates.
Caught_tolerated_only == {"ComponentNotFound", "TimeoutError"}

\* gp_device_setup.py:146, except Exception
Caught == ExceptionKinds

\* A failure that is not derived from Exception (KeyboardInterrupt, ...).
FailureKinds == ExceptionKinds \cup {"BaseException"}

\* What the RunEngine throws into a plan for a failed message, and what a
\* signal's get/put raises: never the registry's ComponentNotFound.
MessageFailures == FailureKinds \ {"ComponentNotFound"}

\* gp_device_setup.py:114
CalcKeys == << "user_calcouts", "user_calcs", "user_sseqs", "user_transforms" >>

\* gp_device_setup.py:58, srev=2_000
SrevDefault == 2000

\* An override a caller may pass as srev.
SrevArgs == {SrevDefault, 1000}

\* gp_device_setup.py:225, delay=0.05 (in units of 0.01)
DelayDefault == 5

\* gp_device_setup.py:197
ScalerRate == 20

\* gp_device_setup.py:191, bps.sleep(1)
SleepTime == 1

\* Faulty variant: the names of chan03 and chan04 exchanged.
ChannelNames_exchanged == << "timebase", "I0", "diode", "scint", "I000", "I00" >>

\* gp_device_setup.py:183-188, the arguments of bps.mv in order
ChannelNames == << "timebase", "I0", "scint", "diode", "I000", "I00" >>

\* Faulty variant: scint listed twice, diode left out.
ItemOrder_scint_twice == << 1, 2, 6, 5, 3, 3 >>

\* gp_device_setup.py:201-206 and 210: (timebase, I0, I00, I000, scint, diode)
\* as channel numbers.
ItemOrder == << 1, 2, 6, 5, 3, 4 >>

\* gp_device_setup.py:212
ChannelLabels == {"channel", "counter"}

\* rate_effect_plan.py:10, def rate_effect(first=10, last=40, step=1, npts=10)
FirstDefault == 10
LastDefault == 40
StepDefault == 1
NptsDefault == 10

RateDefaults ==
    [first |-> FirstDefault, last |-> LastDefault, step |-> StepDefault,
     npts |-> NptsDefault]

\* The arguments rate_effect is called with.
RateArgs ==
    [first : 0..MaxRate, last : 0..MaxRate, step : 1..MaxStep, npts : 1..MaxNpts]
    \cup {RateDefaults}

\* ---------------------------------------------------------------- devices
\* The devices the plans name, and the motors the label lookup may find.
MotorNames == {"m1", "m2", "m3"}
OtherNames == {"scaler1", "shutter", "dcm", "temperature", "ad_transform", "adsimdet"}
CalcNames == {CalcKeys[k] : k \in 1..Len(CalcKeys)}
DeviceNames == CalcNames \cup MotorNames \cup OtherNames

\* Registration order of the devices (the order findall returns them in).
DeviceOrder ==
    << "user_calcouts", "user_calcs", "user_sseqs", "user_transforms",
       "m1", "m2", "m3", "scaler1", "shutter", "dcm", "temperature",
       "ad_transform", "adsimdet" >>

\* dir(motor): m2 is a motor without the steps_per_revolution component.
dir(dev) ==
    IF dev \in {"m1", "m3"} THEN {"user_readback", "steps_per_revolution"}
    ELSE IF dev = "m2" THEN {"user_readback"}
    ELSE {}

Labels(dev) == IF dev \in MotorNames THEN {"motor"} ELSE {}

Entry(dev) == [name |-> dev, labels |-> Labels(dev)]

\* scaler1.channels.chanNN.s, the handles of lines 201-206
ChanHandles ==
    << "scaler1.channels.chan01.s", "scaler1.channels.chan02.s",
       "scaler1.channels.chan03.s", "scaler1.channels.chan04.s",
       "scaler1.channels.chan05.s", "scaler1.channels.chan06.s" >>

\* scaler1.channels.chanNN.chname, the signals of lines 183-188
ChnameSignals ==
    << "channels.chan01.chname", "channels.chan02.chname",
       "channels.chan03.chname", "channels.chan04.chname",
       "channels.chan05.chname", "channels.chan06.chname" >>

\* The registries a session may be constructed with: every subset of the
\* calc subsystems, every subset of the motors, each single other device
\* missing, and the empty registry.
RegistryChoices ==
    {DeviceNames \ X : X \in SUBSET CalcNames}
    \cup {DeviceNames \ X : X \in SUBSET MotorNames}
    \cup {DeviceNames \ {d} : d \in OtherNames}
    \cup {{}}

VARIABLES
    registry,    \* the ophyd registry: a set of [name, labels]
    devs,        \* the devices' fields (EPICS and local)
    pc,          \* control point of the running plan
    plan,        \* the plan given to the RunEngine ("none" before the first)
    idx,         \* _custom_controls_setup: position in functions
    func,        \* the step being executed
    started,     \* the steps started by the running plan, in order
    active,      \* the steps started and not yet ended
    warnings,    \* logger.warning of line 52: the positions it was logged for
    result,      \* how the last plan ended: "none", "finished", "raised"
    i,           \* the running step's loop index
    found,       \* change_motor_srev: the result of findall
    srev,        \* change_motor_srev: the srev argument
    branch,      \* setup_scaler1: what line 179 decided ("", "assign", "skip")
    waited,      \* devices whose wait_for_connection returned in this step
    writes,      \* number-valued writes of this step: <<device, field, value>>
    swrites,     \* string-valued writes and calls of this step
    slept,       \* time slept in this step (bps.sleep)
    registered,  \* handles this step passed to oregistry.register
    printed,     \* line 147 printed in this step
    raised,      \* the failure in flight: [kind, op, dev]
    nfail,       \* failures injected so far
    rargs,       \* rate_effect: [first, last, step, npts]
    sweep,       \* rate_effect: the value of np.arange(...)
    rates,       \* rate_effect: the rates put to scaler1.update_rate, in order
    batch,       \* rate_effect: measurements taken in the running bp.count
    batches      \* rate_effect: sizes of the completed bp.count runs, in order

vars ==
    << registry, devs, pc, plan, idx, func, started, active, warnings, result,
       i, found, srev, branch, waited, writes, swrites, slept, registered,
       printed, raised, nfail, rargs, sweep, rates, batch, batches >>

rateVars == << rargs, sweep, rates, batch, batches >>
runVars == << plan, idx, started, warnings, result >>
frameVars == << func, active >>

NoFailure == [kind |-> "none", op |-> "none", dev |-> "none"]

\* -------------------------------------------------------------- registry
Names(reg) == {r.name : r \in reg}

\* oregistry[name] and oregistry.find(name=..., allow_none=True)
Has(name) == name \in Names(registry)

\* oregistry.findall(label=...): the registered devices carrying the label
findall(label) ==
    SelectSeq(DeviceOrder,
              LAMBDA n : \E r \in registry : r.name = n /\ label \in r.labels)

\* ------------------------------------------------------- failure helpers
\* An injected failure of kind `kind` in operation `op` on device `dev`.
Fault(kind, op, dev) ==
    /\ nfail < MaxFailures
    /\ nfail' = nfail + 1
    /\ pc' = "raise"
    /\ raised' = [kind |-> kind, op |-> op, dev |-> dev]

\* oregistry[name] of a name that is not registered
NotFound(dev) ==
    /\ pc' = "raise"
    /\ raised' = [kind |-> "ComponentNotFound", op |-> "lookup", dev |-> dev]
    /\ UNCHANGED nfail

Goto(p) == pc' = p /\ UNCHANGED << raised, nfail >>

\* What a step never touches.
StepFrame == UNCHANGED << runVars, frameVars, rateVars >>

FreshDevs ==
    [ enable |-> [c \in CalcNames |-> 0],
      steps_per_revolution |-> [m \in MotorNames |-> 0],
      chname |-> [c \in 1..6 |-> ""],
      selected |-> {},
      update_rate |-> 0,
      override_signal_name |-> "",
      calc1 |-> "",
      delay_s |-> 0,
      dcm |-> "",
      temperature |-> "",
      ad |-> 0 ]

InitCommon ==
    /\ devs = FreshDevs
    /\ pc = "idle"
    /\ plan = "none"
    /\ idx = 0
    /\ func = "none"
    /\ started = << >>
    /\ active = {}
    /\ warnings = << >>
    /\ result = "none"
    /\ i = 0
    /\ found = << >>
    /\ srev = SrevDefault
    /\ branch = ""
    /\ waited = {}
    /\ writes = {}
    /\ swrites = {}
    /\ slept = 0
    /\ registered = {}
    /\ printed = FALSE
    /\ raised = NoFailure
    /\ nfail = 0
    /\ rargs = [first |-> 0, last |-> 0, step |-> 1, npts |-> 0]
    /\ sweep = << >>
    /\ rates = << >>
    /\ batch = 0
    /\ batches = << >>

Init ==
    /\ \E present \in RegistryChoices : registry = {Entry(d) : d \in present}
    /\ InitCommon

\* The first control point of each step.
EntryPoint(f) ==
    CASE f = "enable_user_calcs" -> "L114"
      [] f = "change_motor_srev" -> "L69"
      [] f = "setup_scaler1" -> "L175"
      [] f = "change_noisy_signal_parameters" -> "L90"
      [] f = "setup_shutter" -> "L235"
      [] f = "setup_monochromator" -> "L155"
      [] f = "setup_temperature_positioner" -> "L246"
      [] f = "setup_area_detectors" -> "L128"

\* Calling step f with srev = s: fresh locals, and an empty record of what
\* the step has done.
Call(f, s) ==
    /\ func' = f
    /\ active' = active \cup {f}
    /\ pc' = EntryPoint(f)
    /\ i' = 1
    /\ found' = << >>
    /\ srev' = s
    /\ branch' = ""
    /\ waited' = {}
    /\ writes' = {}
    /\ swrites' = {}
    /\ slept' = 0
    /\ registered' = {}
    /\ printed' = FALSE
    /\ raised' = NoFailure

StepLocals == << i, found, srev, branch >>
StepLog == << waited, writes, swrites, slept, registered, printed >>

\* ------------------------------------------- _custom_controls_setup (32-53)
\* RE(_custom_controls_setup()): lines 36-47, up to the first iteration.
RE_custom_controls_setup ==
    /\ pc = "idle"
    /\ plan \in {"none", "_custom_controls_setup"}
    /\ plan' = "_custom_controls_setup"
    /\ idx' = 1
    /\ started' = << >>
    /\ warnings' = << >>
    /\ result' = "none"
    /\ pc' = "L48"
    /\ raised' = NoFailure
    /\ UNCHANGED << registry, devs, frameVars, StepLocals, StepLog, nfail, rateVars >>

\* Lines 48-50: the next func is called; line 53 when the list is exhausted.
seq_L48 ==
    /\ pc = "L48"
    /\ plan = "_custom_controls_setup"
    /\ IF idx <= Len(functions)
       THEN /\ Call(functions[idx], SrevDefault)
            /\ started' = Append(started, functions[idx])
            /\ UNCHANGED << plan, idx, warnings, result >>
       ELSE /\ pc' = "idle"
            /\ result' = "finished"
            /\ UNCHANGED << plan, idx, started, warnings, frameVars, StepLocals,
                            StepLog, raised >>
    /\ UNCHANGED << registry, devs, nfail, rateVars >>

\* Line 50: func() returned.
seq_L50 ==
    /\ pc = "ret"
    /\ plan = "_custom_controls_setup"
    /\ active' = active \ {func}
    /\ idx' = idx + 1
    /\ pc' = "L48"
    /\ UNCHANGED << registry, devs, plan, started, warnings, result, func,
                    StepLocals, StepLog, raised, nfail, rateVars >>

\* Faulty variant: after a tolerated failure the same func is called again.
seq_L51_retry ==
    /\ pc = "raise"
    /\ plan = "_custom_controls_setup"
    /\ active' = active \ {func}
    /\ IF raised.kind \in Tolerated
       THEN /\ warnings' = Append(warnings, idx)
            /\ pc' = "L48"
            /\ UNCHANGED << result, idx >>
       ELSE /\ pc' = "idle"
            /\ result' = "raised"
            /\ UNCHANGED << warnings, idx >>
    /\ UNCHANGED << registry, devs, plan, started, func, StepLocals, StepLog,
                    raised, nfail, rateVars >>

\* Lines 51-52: func() raised.  A tolerated kind is logged and the loop goes
\* on; any other kind leaves the plan.
seq_L51 ==
    /\ pc = "raise"
    /\ plan = "_custom_controls_setup"
    /\ active' = active \ {func}
    /\ IF raised.kind \in Tolerated
       THEN /\ warnings' = Append(warnings, idx)
            /\ idx' = idx + 1
            /\ pc' = "L48"
            /\ UNCHANGED result
       ELSE /\ pc' = "idle"
            /\ result' = "raised"
            /\ UNCHANGED << warnings, idx >>
    /\ UNCHANGED << registry, devs, plan, started, func, StepLocals, StepLog,
                    raised, nfail, rateVars >>

\* ---------------------------------------------- enable_user_calcs (109-119)
\* Faulty variant: the key is looked up without allow_none=True.
euc_L114_no_allow_none ==
    /\ pc = "L114"
    /\ IF i > Len(CalcKeys)
       THEN Goto("ret")
       ELSE IF Has(CalcKeys[i]) THEN Goto("L117") ELSE NotFound(CalcKeys[i])
    /\ UNCHANGED << registry, devs, StepLocals, StepLog >>
    /\ StepFrame

\* Lines 114-116: the next key is looked up with allow_none=True.
euc_L114 ==
    /\ pc = "L114"
    /\ IF i > Len(CalcKeys)
       THEN Goto("ret") /\ UNCHANGED i
       ELSE IF Has(CalcKeys[i])
            THEN Goto("L117") /\ UNCHANGED i
            ELSE Goto("L114") /\ i' = i + 1
    /\ UNCHANGED << registry, devs, found, srev, branch, StepLog >>
    /\ StepFrame

\* Faulty variant: a timeout of the wait is skipped over and the loop goes
\* on with the next key.
euc_L117_skip_timeout ==
    /\ pc = "L117"
    /\ \/ Goto("L119") /\ waited' = waited \cup {CalcKeys[i]} /\ UNCHANGED i
       \/ /\ nfail < MaxFailures
          /\ nfail' = nfail + 1
          /\ raised' = [kind |-> "TimeoutError", op |-> "wait", dev |-> CalcKeys[i]]
          /\ pc' = "L114"
          /\ i' = i + 1
          /\ UNCHANGED waited
    /\ UNCHANGED << registry, devs, found, srev, branch, writes, swrites, slept,
                    registered, printed >>
    /\ StepFrame

\* Line 117: obj.wait_for_connection()
euc_L117 ==
    /\ pc = "L117"
    /\ \/ Goto("L119") /\ waited' = waited \cup {CalcKeys[i]}
       \/ Fault("TimeoutError", "wait", CalcKeys[i]) /\ UNCHANGED waited
    /\ UNCHANGED << registry, devs, StepLocals, writes, swrites, slept,
                    registered, printed >>
    /\ StepFrame

\* Line 119: yield from bps.mv(obj.enable, 1).  A failing move has issued
\* its write (k = 1) or not (k = 0).
euc_L119 ==
    /\ pc = "L119"
    /\ \/ /\ Goto("L114")
          /\ i' = i + 1
          /\ writes' = writes \cup {<<CalcKeys[i], "enable", 1>>}
          /\ devs' = [devs EXCEPT !.enable[CalcKeys[i]] = 1]
       \/ \E kind \in MessageFailures, k \in 0..1 :
             /\ Fault(kind, "mv", CalcKeys[i])
             /\ UNCHANGED i
             /\ IF k = 1
                THEN /\ writes' = writes \cup {<<CalcKeys[i], "enable", 1>>}
                     /\ devs' = [devs EXCEPT !.enable[CalcKeys[i]] = 1]
                ELSE UNCHANGED << writes, devs >>
    /\ UNCHANGED << registry, found, srev, branch, waited, swrites, slept,
                    registered, printed >>
    /\ StepFrame

\* ---------------------------------------------- change_motor_srev (56-73)
\* Line 69: oregistry.findall(label="motor"), which raises ComponentNotFound
\* when nothing carries the label (allow_none is not passed).
cms_L69 ==
    /\ pc = "L69"
    /\ IF findall("motor") = << >>
       THEN NotFound("motor") /\ UNCHANGED found
       ELSE Goto("L70") /\ found' = findall("motor")
    /\ UNCHANGED << registry, devs, i, srev, branch, StepLog >>
    /\ StepFrame

\* Faulty variant: the write is issued without waiting for the connection.
cms_L70_no_wait ==
    /\ pc = "L70"
    /\ IF i > Len(found)
       THEN Goto("ret") /\ UNCHANGED i
       ELSE IF "steps_per_revolution" \in dir(found[i])
            THEN Goto("L73") /\ UNCHANGED i
            ELSE Goto("L70") /\ i' = i + 1
    /\ UNCHANGED << registry, devs, found, srev, branch, StepLog >>
    /\ StepFrame

\* Lines 69-70: the next motor, skipped when it has no steps_per_revolution.
cms_L70 ==
    /\ pc = "L70"
    /\ IF i > Len(found)
       THEN Goto("ret") /\ UNCHANGED i
       ELSE IF "steps_per_revolution" \in dir(found[i])
            THEN Goto("L71") /\ UNCHANGED i
            ELSE Goto("L70") /\ i' = i + 1
    /\ UNCHANGED << registry, devs, found, srev, branch, StepLog >>
    /\ StepFrame

\* Line 71: motor.wait_for_connection()
cms_L71 ==
    /\ pc = "L71"
    /\ \/ Goto("L73") /\ waited' = waited \cup {found[i]}
       \/ Fault("TimeoutError", "wait", found[i]) /\ UNCHANGED waited
    /\ UNCHANGED << registry, devs, StepLocals, writes, swrites, slept,
                    registered, printed >>
    /\ StepFrame

\* Faulty variant: the default is written whatever srev is.
cms_L73_default_only ==
    /\ pc = "L73"
    /\ Goto("L70")
    /\ i' = i + 1
    /\ writes' = writes \cup {<<found[i], "steps_per_revolution", SrevDefault>>}
    /\ devs' = [devs EXCEPT !.steps_per_revolution[found[i]] = SrevDefault]
    /\ UNCHANGED << registry, found, srev, branch, waited, swrites, slept,
                    registered, printed >>
    /\ StepFrame

\* Line 73: yield from bps.mv(motor.steps_per_revolution, srev)
cms_L73 ==
    /\ pc = "L73"
    /\ \/ /\ Goto("L70")
          /\ i' = i + 1
          /\ writes' = writes \cup {<<found[i], "steps_per_revolution", srev>>}
          /\ devs' = [devs EXCEPT !.steps_per_revolution[found[i]] = srev]
       \/ \E kind \in MessageFailures, k \in 0..1 :
             /\ Fault(kind, "mv", found[i])
             /\ UNCHANGED i
             /\ IF k = 1
                THEN /\ writes' = writes \cup {<<found[i], "steps_per_revolution", srev>>}
                     /\ devs' = [devs EXCEPT !.steps_per_revolution[found[i]] = srev]
                ELSE UNCHANGED << writes, devs >>
    /\ UNCHANGED << registry, found, srev, branch, waited, swrites, slept,
                    registered, printed >>
    /\ StepFrame

\* -------------------------------------------------- setup_scaler1 (162-220)
\* Line 175: scaler1 = oregistry["scaler1"]
ss_L175 ==
    /\ pc = "L175"
    /\ IF Has("scaler1") THEN Goto("L176") ELSE NotFound("scaler1")
    /\ UNCHANGED << registry, devs, StepLocals, StepLog >>
    /\ StepFrame

\* Line 176: scaler1.wait_for_connection()
ss_L176 ==
    /\ pc = "L176"
    /\ \/ Goto("L179") /\ waited' = waited \cup {"scaler1"}
       \/ Fault("TimeoutError", "wait", "scaler1") /\ UNCHANGED waited
    /\ UNCHANGED << registry, devs, StepLocals, writes, swrites, slept,
                    registered, printed >>
    /\ StepFrame

\* Line 179: if not len(scaler1.channels.chan01.chname.get())
ss_L179 ==
    /\ pc = "L179"
    /\ \/ IF devs.chname[1] = ""
          THEN Goto("L182") /\ branch' = "assign"
          ELSE Goto("L194") /\ branch' = "skip"
       \/ \E kind \in MessageFailures :
             Fault(kind, "get", "scaler1") /\ UNCHANGED branch
    /\ UNCHANGED << registry, devs, i, found, srev, StepLog >>
    /\ StepFrame

\* The first k (signal, name) pairs of the move of lines 182-189.
NameWrites(k) == {<<"scaler1", ChnameSignals[c], ChannelNames[c]>> : c \in 1..k}

Named(k) ==
    [devs EXCEPT !.chname =
        [c \in 1..6 |-> IF c <= k THEN ChannelNames[c] ELSE devs.chname[c]]]

\* Lines 182-189: yield from bps.mv(six signals and names).  A failing move
\* has issued the writes of its first k pairs.
ss_L182 ==
    /\ pc = "L182"
    /\ \/ /\ Goto("L191")
          /\ swrites' = swrites \cup NameWrites(Len(ChannelNames))
          /\ devs' = Named(Len(ChannelNames))
       \/ \E kind \in MessageFailures, k \in 0..Len(ChannelNames) :
             /\ Fault(kind, "mv", "scaler1")
             /\ swrites' = swrites \cup NameWrites(k)
             /\ devs' = Named(k)
    /\ UNCHANGED << registry, StepLocals, waited, writes, slept, registered,
                    printed >>
    /\ StepFrame

\* Line 191: yield from bps.sleep(1)
ss_L191 ==
    /\ pc = "L191"
    /\ \/ Goto("L194") /\ slept' = slept + SleepTime
       \/ \E kind \in MessageFailures :
             Fault(kind, "sleep", "scaler1") /\ UNCHANGED slept
    /\ UNCHANGED << registry, devs, StepLocals, waited, writes, swrites,
                    registered, printed >>
    /\ StepFrame

\* Line 194: scaler1.select_channels(), the channels with EPICS names
ss_L194 ==
    /\ pc = "L194"
    /\ Goto("L197")
    /\ devs' = [devs EXCEPT !.selected = {c \in 1..6 : devs.chname[c] # ""}]
    /\ UNCHANGED << registry, StepLocals, StepLog >>
    /\ StepFrame

\* Line 197: scaler1.update_rate.put(20)
ss_L197 ==
    /\ pc = "L197"
    /\ \/ /\ Goto("L208")
          /\ writes' = writes \cup {<<"scaler1", "update_rate", ScalerRate>>}
          /\ devs' = [devs EXCEPT !.update_rate = ScalerRate]
       \/ \E kind \in MessageFailures :
             Fault(kind, "put", "scaler1") /\ UNCHANGED << writes, devs >>
    /\ UNCHANGED << registry, StepLocals, waited, swrites, slept, registered,
                    printed >>
    /\ StepFrame

\* Lines 201-208: I0.parent.override_signal_name.put("noisy")
ss_L208 ==
    /\ pc = "L208"
    /\ \/ /\ Goto("L210")
          /\ swrites' = swrites \cup
                {<<"scaler1", "channels.chan02.override_signal_name", "noisy">>}
          /\ devs' = [devs EXCEPT !.override_signal_name = "noisy"]
       \/ \E kind \in MessageFailures :
             Fault(kind, "put", "scaler1") /\ UNCHANGED << swrites, devs >>
    /\ UNCHANGED << registry, StepLocals, waited, writes, slept, registered,
                    printed >>
    /\ StepFrame

\* Lines 210-220: the next item gets its labels and is registered.
ss_L210 ==
    /\ pc = "L210"
    /\ IF i > Len(ItemOrder)
       THEN Goto("ret") /\ UNCHANGED << i, registry, registered >>
       ELSE /\ Goto("L210")
            /\ i' = i + 1
            /\ registry' = registry \cup
                  {[name |-> ChanHandles[ItemOrder[i]], labels |-> ChannelLabels]}
            /\ registered' = registered \cup
                  {[name |-> ChanHandles[ItemOrder[i]], labels |-> ChannelLabels]}
    /\ UNCHANGED << devs, found, srev, branch, waited, writes, swrites, slept,
                    printed >>
    /\ StepFrame

\* --------------------------------- change_noisy_signal_parameters (76-106)
\* Lines 90-91: m1 = oregistry["m1"]; user_calcs = oregistry["user_calcs"]
cn_L90 ==
    /\ pc = "L90"
    /\ IF ~Has("m1") THEN NotFound("m1")
       ELSE IF ~Has("user_calcs") THEN NotFound("user_calcs")
       ELSE Goto("L93")
    /\ UNCHANGED << registry, devs, StepLocals, StepLog >>
    /\ StepFrame

\* Faulty variant: the enable write of line 95 is left out.
cn_L93_no_enable ==
    /\ pc = "L93"
    /\ LET obj == << "m1", "user_calcs" >>[i] IN
       \/ /\ Goto(IF i = 2 THEN "L97" ELSE "L93")
          /\ i' = i + 1
          /\ waited' = waited \cup {obj}
       \/ Fault("TimeoutError", "wait", obj) /\ UNCHANGED << i, waited >>
    /\ UNCHANGED << registry, devs, found, srev, branch, writes, swrites,
                    slept, registered, printed >>
    /\ StepFrame

\* Lines 92-93: for obj in (m1, user_calcs): obj.wait_for_connection()
cn_L93 ==
    /\ pc = "L93"
    /\ LET obj == << "m1", "user_calcs" >>[i] IN
       \/ /\ Goto(IF i = 2 THEN "L95" ELSE "L93")
          /\ i' = i + 1
          /\ waited' = waited \cup {obj}
       \/ Fault("TimeoutError", "wait", obj) /\ UNCHANGED << i, waited >>
    /\ UNCHANGED << registry, devs, found, srev, branch, writes, swrites,
                    slept, registered, printed >>
    /\ StepFrame

\* Line 95: yield from bps.mv(user_calcs.enable, 1)
cn_L95 ==
    /\ pc = "L95"
    /\ \/ /\ Goto("L97")
          /\ writes' = writes \cup {<<"user_calcs", "enable", 1>>}
          /\ devs' = [devs EXCEPT !.enable["user_calcs"] = 1]
       \/ \E kind \in MessageFailures, k \in 0..1 :
             /\ Fault(kind, "mv", "user_calcs")
             /\ IF k = 1
                THEN /\ writes' = writes \cup {<<"user_calcs", "enable", 1>>}
                     /\ devs' = [devs EXCEPT !.enable["user_calcs"] = 1]
                ELSE UNCHANGED << writes, devs >>
    /\ UNCHANGED << registry, StepLocals, waited, swrites, slept, registered,
                    printed >>
    /\ StepFrame

\* Line 97: yield from run_blocking_function(user_calcs.calc1.reset)
cn_L97 ==
    /\ pc = "L97"
    /\ \/ /\ Goto("L98")
          /\ swrites' = swrites \cup {<<"user_calcs", "calc1", "reset">>}
          /\ devs' = [devs EXCEPT !.calc1 = "reset"]
       \/ \E kind \in MessageFailures :
             Fault(kind, "call", "user_calcs") /\ UNCHANGED << swrites, devs >>
    /\ UNCHANGED << registry, StepLocals, waited, writes, slept, registered,
                    printed >>
    /\ StepFrame

\* Lines 98-106: yield from run_blocking_function(setup_lorentzian_swait,
\* user_calcs.calc1, m1.user_readback, ...).  The four random parameters are
\* not recorded.
cn_L98 ==
    /\ pc = "L98"
    /\ \/ /\ Goto("ret")
          /\ swrites' = swrites \cup
                {<<"user_calcs", "calc1", "setup_lorentzian_swait">>}
          /\ devs' = [devs EXCEPT !.calc1 = "lorentzian"]
       \/ \E kind \in MessageFailures :
             Fault(kind, "call", "user_calcs") /\ UNCHANGED << swrites, devs >>
    /\ UNCHANGED << registry, StepLocals, waited, writes, slept, registered,
                    printed >>
    /\ StepFrame

\* -------------------------------------------------- setup_shutter (223-237)
\* Lines 232-235: bps.null(), then shutter = oregistry["shutter"]
sh_L235 ==
    /\ pc = "L235"
    /\ IF Has("shutter") THEN Goto("L236") ELSE NotFound("shutter")
    /\ UNCHANGED << registry, devs, StepLocals, StepLog >>
    /\ StepFrame

\* Line 236: shutter.wait_for_connection()
sh_L236 ==
    /\ pc = "L236"
    /\ \/ Goto("L237") /\ waited' = waited \cup {"shutter"}
       \/ Fault("TimeoutError", "wait", "shutter") /\ UNCHANGED waited
    /\ UNCHANGED << registry, devs, StepLocals, writes, swrites, slept,
                    registered, printed >>
    /\ StepFrame

\* Line 237: shutter.delay_s = delay, an assignment on the local object
sh_L237 ==
    /\ pc = "L237"
    /\ Goto("ret")
    /\ writes' = writes \cup {<<"shutter", "delay_s", DelayDefault>>}
    /\ devs' = [devs EXCEPT !.delay_s = DelayDefault]
    /\ UNCHANGED << registry, StepLocals, waited, swrites, slept, registered,
                    printed >>
    /\ StepFrame

\* -------------------------------------------- setup_monochromator (150-159)
\* Line 155: dcm = oregistry["dcm"]
mono_L155 ==
    /\ pc = "L155"
    /\ IF Has("dcm") THEN Goto("L156") ELSE NotFound("dcm")
    /\ UNCHANGED << registry, devs, StepLocals, StepLog >>
    /\ StepFrame

\* Line 156: dcm.wait_for_connection()
mono_L156 ==
    /\ pc = "L156"
    /\ \/ Goto("L159") /\ waited' = waited \cup {"dcm"}
       \/ Fault("TimeoutError", "wait", "dcm") /\ UNCHANGED waited
    /\ UNCHANGED << registry, devs, StepLocals, writes, swrites, slept,
                    registered, printed >>
    /\ StepFrame

\* Line 159: yield from dcm.into_control_range(p_theta=2, p_y=-5, p_z=5)
mono_L159 ==
    /\ pc = "L159"
    /\ \/ /\ Goto("ret")
          /\ swrites' = swrites \cup {<<"dcm", "into_control_range", "2,-5,5">>}
          /\ devs' = [devs EXCEPT !.dcm = "in_control_range"]
       \/ \E kind \in FailureKinds :
             Fault(kind, "call", "dcm") /\ UNCHANGED << swrites, devs >>
    /\ UNCHANGED << registry, StepLocals, waited, writes, slept, registered,
                    printed >>
    /\ StepFrame

\* ----------------------------------- setup_temperature_positioner (240-256)
\* Line 246: temperature = oregistry["temperature"]
tp_L246 ==
    /\ pc = "L246"
    /\ IF Has("temperature") THEN Goto("L247") ELSE NotFound("temperature")
    /\ UNCHANGED << registry, devs, StepLocals, StepLog >>
    /\ StepFrame

\* Line 247: temperature.wait_for_connection()
tp_L247 ==
    /\ pc = "L247"
    /\ \/ Goto("L248") /\ waited' = waited \cup {"temperature"}
       \/ Fault("TimeoutError", "wait", "temperature") /\ UNCHANGED waited
    /\ UNCHANGED << registry, devs, StepLocals, writes, swrites, slept,
                    registered, printed >>
    /\ StepFrame

\* Lines 248-256: yield from run_blocking_function(
\* temperature.setup_temperature, setpoint=25, noise=1, rate=5, tol=1,
\* max_change=2, report_dmov_changes=False)
tp_L248 ==
    /\ pc = "L248"
    /\ \/ /\ Goto("ret")
          /\ swrites' = swrites \cup
                {<<"temperature", "setup_temperature", "25,1,5,1,2,False">>}
          /\ devs' = [devs EXCEPT !.temperature = "setup"]
       \/ \E kind \in FailureKinds :
             Fault(kind, "call", "temperature") /\ UNCHANGED << swrites, devs >>
    /\ UNCHANGED << registry, StepLocals, waited, writes, slept, registered,
                    printed >>
    /\ StepFrame

\* ------------------------------------------- setup_area_detectors (122-147)
\* Lines 127-129: bps.null(), then ad_transform = oregistry["ad_transform"];
\* adsimdet = oregistry["adsimdet"]
ad_L128 ==
    /\ pc = "L128"
    /\ IF ~Has("ad_transform") THEN NotFound("ad_transform")
       ELSE IF ~Has("adsimdet") THEN NotFound("adsimdet")
       ELSE Goto("L131")
    /\ UNCHANGED << registry, devs, StepLocals, StepLog >>
    /\ StepFrame

\* Lines 130-132: for obj in (ad_transform, adsimdet): obj.wait_for_connection()
ad_L131 ==
    /\ pc = "L131"
    /\ LET obj == << "ad_transform", "adsimdet" >>[i] IN
       \/ /\ Goto(IF i = 2 THEN "L139" ELSE "L131")
          /\ i' = i + 1
          /\ waited' = waited \cup {obj}
       \/ Fault("TimeoutError", "wait", obj) /\ UNCHANGED << i, waited >>
    /\ UNCHANGED << registry, devs, found, srev, branch, writes, swrites,
                    slept, registered, printed >>
    /\ StepFrame

\* A failure inside the try block of lines 134-144 reaches line 146.
TryFault(kind, op, dev) ==
    /\ nfail < MaxFailures
    /\ nfail' = nfail + 1
    /\ pc' = "L146"
    /\ raised' = [kind |-> kind, op |-> op, dev |-> dev]

\* Lines 135-139: the imports, then
\* yield from change_ad_simulated_image_parameters(adsimdet)
ad_L139 ==
    /\ pc = "L139"
    /\ \/ /\ Goto("L141")
          /\ swrites' = swrites \cup
                {<<"adsimdet", "change_ad_simulated_image_parameters", "">>}
          /\ devs' = [devs EXCEPT !.ad = 1]
       \/ \E kind \in FailureKinds :
             TryFault(kind, "chain", "adsimdet") /\ UNCHANGED << swrites, devs >>
    /\ UNCHANGED << registry, StepLocals, waited, writes, slept, registered,
                    printed >>
    /\ StepFrame

\* Line 141: yield from dither_ad_peak_position(adsimdet)
ad_L141 ==
    /\ pc = "L141"
    /\ \/ /\ Goto("L144")
          /\ swrites' = swrites \cup {<<"adsimdet", "dither_ad_peak_position", "">>}
          /\ devs' = [devs EXCEPT !.ad = 2]
       \/ \E kind \in FailureKinds :
             TryFault(kind, "chain", "adsimdet") /\ UNCHANGED << swrites, devs >>
    /\ UNCHANGED << registry, StepLocals, waited, writes, slept, registered,
                    printed >>
    /\ StepFrame

\* Line 144: yield from ad_peak_simulation(adsimdet, ad_transform)
ad_L144 ==
    /\ pc = "L144"
    /\ \/ /\ Goto("ret")
          /\ swrites' = swrites \cup
                {<<"adsimdet", "ad_peak_simulation", "">>,
                 <<"ad_transform", "ad_peak_simulation", "">>}
          /\ devs' = [devs EXCEPT !.ad = 3]
       \/ \E kind \in FailureKinds :
             TryFault(kind, "chain", "adsimdet") /\ UNCHANGED << swrites, devs >>
    /\ UNCHANGED << registry, StepLocals, waited, writes, slept, registered,
                    printed >>
    /\ StepFrame

\* Lines 146-147: except Exception as reason: print(...).  A failure that
\* is no Exception is not caught.
ad_L146 ==
    /\ pc = "L146"
    /\ IF raised.kind \in Caught
       THEN /\ pc' = "ret"
            /\ printed' = TRUE
            /\ raised' = NoFailure
       ELSE /\ pc' = "raise"
            /\ UNCHANGED << printed, raised >>
    /\ UNCHANGED << registry, devs, StepLocals, waited, writes, swrites, slept,
                    registered, nfail >>
    /\ StepFrame

\* ------------------------------------------------------------ the steps
Steps ==
    \/ euc_L114 \/ euc_L117 \/ euc_L119
    \/ cms_L69 \/ cms_L70 \/ cms_L71 \/ cms_L73
    \/ ss_L175 \/ ss_L176 \/ ss_L179 \/ ss_L182 \/ ss_L191 \/ ss_L194
    \/ ss_L197 \/ ss_L208 \/ ss_L210
    \/ cn_L90 \/ cn_L93 \/ cn_L95 \/ cn_L97 \/ cn_L98
    \/ sh_L235 \/ sh_L236 \/ sh_L237
    \/ mono_L155 \/ mono_L156 \/ mono_L159
    \/ tp_L246 \/ tp_L247 \/ tp_L248
    \/ ad_L128 \/ ad_L131 \/ ad_L139 \/ ad_L141 \/ ad_L144 \/ ad_L146

\* ------------------------------------------------ a step run on its own
StepNames == {functions[k] : k \in 1..Len(functions)}

\* RE(f()) for one of the step plans, change_motor_srev with srev = s.
RE_step(f, s) ==
    /\ pc = "idle"
    /\ plan = "none"
    /\ plan' = f
    /\ Call(f, s)
    /\ started' = << f >>
    /\ UNCHANGED << registry, devs, idx, warnings, result, nfail, rateVars >>

\* The plan given to the RunEngine ended, by returning or by raising.
RE_end ==
    /\ pc \in {"ret", "raise"}
    /\ plan \in StepNames \cup {"rate_effect"}
    /\ pc' = "idle"
    /\ result' = IF pc = "ret" THEN "finished" ELSE "raised"
    /\ active' = {}
    /\ UNCHANGED << registry, devs, plan, idx, started, warnings, func,
                    StepLocals, StepLog, raised, nfail, rateVars >>

\* ------------------------------------------ rate_effect_plan.py (9-24)
\* ceil(a / b) for b > 0
CeilDiv(a, b) == -((-a) \div b)

\* Faulty variant: the stop bound is last itself.
SweepStop10_no_epsilon(last, step) == 10 * last

\* The stop bound of line 13, last + step / 10, in tenths.
SweepStop10(last, step) == 10 * last + step

\* numpy.arange(start, stop, step) for step > 0, stop given in tenths:
\* ceil((stop - start) / step) values start, start + step, ...
np_arange(start, stop10, step) ==
    LET n == CeilDiv(stop10 - 10 * start, 10 * step)
    IN  [k \in 1..(IF n > 0 THEN n ELSE 0) |-> start + (k - 1) * step]

\* RE(rate_effect(first, last, step, npts))
RE_rate_effect(a) ==
    /\ pc = "idle"
    /\ plan = "none"
    /\ plan' = "rate_effect"
    /\ rargs' = a
    /\ pc' = "R12"
    /\ UNCHANGED << registry, devs, idx, started, warnings, result, frameVars,
                    StepLocals, StepLog, raised, nfail, sweep, rates, batch,
                    batches >>

\* Lines 12-13: scaler1 = oregistry["scaler1"], then the values of the loop.
re_R12 ==
    /\ pc = "R12"
    /\ IF Has("scaler1")
       THEN /\ Goto("R13")
            /\ sweep' = np_arange(rargs.first,
                                  SweepStop10(rargs.last, rargs.step), rargs.step)
            /\ i' = 1
       ELSE NotFound("scaler1") /\ UNCHANGED << sweep, i >>
    /\ UNCHANGED << registry, devs, runVars, frameVars, found, srev, branch,
                    StepLog, rargs, rates, batch, batches >>

\* Lines 13-14: the next rate; scaler1.update_rate.put(rate)
re_R13 ==
    /\ pc = "R13"
    /\ IF i > Len(sweep)
       THEN Goto("ret") /\ UNCHANGED << rates, devs >>
       ELSE \/ /\ Goto("R16")
               /\ rates' = Append(rates, sweep[i])
               /\ devs' = [devs EXCEPT !.update_rate = sweep[i]]
            \/ \E kind \in MessageFailures :
                  Fault(kind, "put", "scaler1") /\ UNCHANGED << rates, devs >>
    /\ UNCHANGED << registry, runVars, frameVars, StepLocals, StepLog, rargs,
                    sweep, batch, batches >>

\* Faulty variant: a failure of bp.count is swallowed and the loop goes on
\* with the next rate.
re_R16_swallow ==
    /\ pc = "R16"
    /\ IF batch < rargs.npts
       THEN \/ Goto("R16") /\ batch' = batch + 1 /\ UNCHANGED << batches, i >>
            \/ \E kind \in MessageFailures :
                  /\ nfail < MaxFailures
                  /\ nfail' = nfail + 1
                  /\ raised' = [kind |-> kind, op |-> "count", dev |-> "scaler1"]
                  /\ pc' = "R13"
                  /\ batch' = 0
                  /\ i' = i + 1
                  /\ UNCHANGED batches
       ELSE /\ Goto("R13")
            /\ batches' = Append(batches, batch)
            /\ batch' = 0
            /\ i' = i + 1
    /\ UNCHANGED << registry, devs, runVars, frameVars, found, srev, branch,
                    StepLog, rargs, sweep, rates >>

\* Lines 16-24: yield from bp.count([scaler1], num=npts, md=...), one
\* measurement at a time; the batch is complete after npts of them.
re_R16 ==
    /\ pc = "R16"
    /\ IF batch < rargs.npts
       THEN \/ Goto("R16") /\ batch' = batch + 1 /\ UNCHANGED << batches, i >>
            \/ \E kind \in MessageFailures :
                  Fault(kind, "count", "scaler1") /\ UNCHANGED << batch, batches, i >>
       ELSE /\ Goto("R13")
            /\ batches' = Append(batches, batch)
            /\ batch' = 0
            /\ i' = i + 1
    /\ UNCHANGED << registry, devs, runVars, frameVars, found, srev, branch,
                    StepLog, rargs, sweep, rates >>

\* A session runs _custom_controls_setup, any number of times, or one of the
\* step plans on its own, or rate_effect.

Next ==
    \/ RE_custom_controls_setup \/ seq_L48 \/ seq_L50 \/ seq_L51
    \/ \E f \in StepNames :
          \E s \in (IF f = "change_motor_srev" THEN SrevArgs ELSE {SrevDefault}) :
             RE_step(f, s)
    \/ \E a \in RateArgs : RE_rate_effect(a)
    \/ re_R12 \/ re_R13 \/ re_R16
    \/ RE_end
    \/ Steps

Spec == Init /\ [][Next]_vars

\* The RunEngine keeps running the plan it was given, and every operation
\* of a step completes or fails in finite time.  Whether another plan is
\* given to the RunEngine is left open.
Running == seq_L48 \/ seq_L50 \/ seq_L51 \/ Steps

\* The session of startup.py, which runs no plan but _custom_controls_setup.
SetupNext == RE_custom_controls_setup \/ Running

LiveSpec == Init /\ [][SetupNext]_vars /\ WF_vars(Running)

\* ================================================================ properties
\* The eight steps in the order the sequence declares them.
DeclaredOrder ==
    << "enable_user_calcs", "change_motor_srev", "setup_scaler1",
       "change_noisy_signal_parameters", "setup_shutter",
       "setup_monochromator", "setup_temperature_positioner",
       "setup_area_detectors" >>

InSetup == plan = "_custom_controls_setup"

\* C1: in every run of _custom_controls_setup the steps started so far are
\* an initial part of the declared order (so each is started at most once and
\* in that order), at most one step is active and it is the last one started,
\* and a step is started only when no step is active.
C1_DeclaredOrder ==
    /\ [](InSetup =>
            /\ Len(started) <= Len(DeclaredOrder)
            /\ started = SubSeq(DeclaredOrder, 1, Len(started))
            /\ Cardinality(active) <= 1
            /\ (active # {} => started # << >> /\ active = {started[Len(started)]}))
    /\ [][(InSetup /\ started' # started /\ started' # << >>) =>
            /\ active = {}
            /\ Len(started') = Len(started) + 1
            /\ active' = {started'[Len(started')]}]_vars

\* C1 witness: a run that started all eight steps and finished.
C1_Witness ==
    /\ InSetup /\ pc = "idle" /\ result = "finished"
    /\ started = DeclaredOrder

\* C2: when a step of the sequence ends with ComponentNotFound or
\* TimeoutError, wherever in the step it was raised, the sequencer logs it and
\* moves to the next position without starting the step again; at a position
\* within the list the step of that position is started, and past the last
\* position the sequencer ends normally.
C2_ToleratedContinues ==
    /\ [][(InSetup /\ pc = "raise"
             /\ raised.kind \in {"ComponentNotFound", "TimeoutError"}) =>
            /\ pc' = "L48"
            /\ idx' = idx + 1
            /\ started' = started
            /\ warnings' = Append(warnings, idx)
            /\ result' = "none"]_vars
    /\ [][(InSetup /\ pc = "L48") =>
            IF idx <= 8
            THEN /\ started' = Append(started, DeclaredOrder[idx])
                 /\ func' = DeclaredOrder[idx]
                 /\ Len(started') = idx
            ELSE /\ pc' = "idle"
                 /\ result' = "finished"
                 /\ started' = started]_vars

\* C2 witness: setup_scaler1 failed with a timeout in the middle of its name
\* writes, the failure was logged, and the next step was started.
C2_Witness ==
    /\ InSetup
    /\ warnings = << 3 >>
    /\ raised.kind = "none"
    /\ started[Len(started)] = "change_noisy_signal_parameters"
    /\ devs.chname[1] # "" /\ devs.chname[6] = ""

\* C3: when a step of the sequence ends with any other failure kind, the
\* sequence ends at once with that failure: no further step is started in the
\* run, and the devices and the registry stay as the steps left them.
C3_OtherFailurePropagates ==
    /\ [][(InSetup /\ pc = "raise"
             /\ raised.kind \notin {"ComponentNotFound", "TimeoutError"}) =>
            /\ pc' = "idle"
            /\ result' = "raised"
            /\ started' = started
            /\ warnings' = warnings
            /\ devs' = devs
            /\ registry' = registry]_vars
    /\ [][(InSetup /\ pc = "idle" /\ result = "raised") =>
            (started' = << >> /\ devs' = devs /\ registry' = registry)]_vars
    /\ []((InSetup /\ pc = "idle" /\ result = "raised") =>
            /\ Len(started) = idx
            /\ raised.kind \notin {"ComponentNotFound", "TimeoutError", "none"})

\* C3 witness: the sequence ended with a failure before the last step, the
\* failing step having made part of its writes.
C3_Witness ==
    /\ InSetup /\ pc = "idle" /\ result = "raised"
    /\ Len(started) < 8
    /\ func = "setup_scaler1"
    /\ swrites # {}
    /\ devs.chname[1] # "" /\ devs.chname[6] = ""

\* C4 as stated: setup_area_detectors never ends by raising.
C4_NeverRaises ==
    func = "setup_area_detectors" => pc # "raise"

\* C4: a failure derived from Exception that is raised by the imports or by
\* one of the three chained sub-steps of setup_area_detectors is caught and
\* printed, and the step ends without raising.  A failure the step ends with
\* is the not-found of one of its two lookups or the timeout of one of its
\* two waits, which precede the try block, or a failure of the chain that is
\* not derived from Exception.
C4_ChainFailureCaught ==
    func = "setup_area_detectors" =>
        /\ (pc = "raise" =>
              \/ /\ raised.op = "lookup"
                 /\ raised.kind = "ComponentNotFound"
                 /\ raised.dev \in {"ad_transform", "adsimdet"}
              \/ /\ raised.op = "wait"
                 /\ raised.kind = "TimeoutError"
                 /\ raised.dev \in {"ad_transform", "adsimdet"}
              \/ /\ raised.op = "chain"
                 /\ raised.kind \notin {"ComponentNotFound", "TimeoutError", "Exception"})
        /\ (printed => pc \notin {"raise", "L146"} /\ result # "raised")
        /\ (pc = "raise" => ~printed)

\* C4 witness: a sub-step failed after the first one had acted, the failure
\* was printed and the step returned.
C4_Witness ==
    /\ func = "setup_area_detectors"
    /\ pc = "ret"
    /\ printed
    /\ devs.ad = 1

\* The channel-name writes of the running step.
ChnameWrites ==
    {w \in swrites : w[2] \in {ChnameSignals[c] : c \in 1..Len(ChnameSignals)}}

\* The fixed mapping of channel to name.
FixedMapping ==
    { <<"scaler1", "channels.chan01.chname", "timebase">>,
      <<"scaler1", "channels.chan02.chname", "I0">>,
      <<"scaler1", "channels.chan03.chname", "scint">>,
      <<"scaler1", "channels.chan04.chname", "diode">>,
      <<"scaler1", "channels.chan05.chname", "I000">>,
      <<"scaler1", "channels.chan06.chname", "I00">> }

\* The control points of setup_scaler1 from channel selection on.
AfterNaming == {"L194", "L197", "L208", "L210", "ret"}

\* C5: in setup_scaler1, the name of channel 1 decides the branch: non-empty,
\* the step goes to channel selection with no channel-name write and no
\* delay; empty, the six names of the fixed mapping are written, and no
\* others, and the delay of 1 has been taken when channel selection is
\* reached.  A channel 1 named by an earlier run therefore leads to no name
\* write.
C5_NamingIdempotent ==
    /\ [](func = "setup_scaler1" =>
            /\ ChnameWrites \subseteq FixedMapping
            /\ (branch = "skip" => ChnameWrites = {} /\ slept = 0)
            /\ (branch = "assign" /\ pc \in AfterNaming \cup {"L191"}
                  => ChnameWrites = FixedMapping)
            /\ (branch = "assign" /\ pc \in AfterNaming => slept = 1)
            /\ (pc \in AfterNaming => branch \in {"assign", "skip"})
            /\ (branch = "" => ChnameWrites = {} /\ slept = 0))
    /\ [][(func = "setup_scaler1" /\ pc = "L179" /\ pc' # "raise") =>
            IF devs.chname[1] = ""
            THEN branch' = "assign" /\ pc' = "L182"
            ELSE branch' = "skip" /\ pc' = "L194"]_vars

\* C5 witness: a second run of the step, after a first run named the
\* channels, completed without a name write.
C5_Witness ==
    /\ func = "setup_scaler1"
    /\ pc = "ret"
    /\ branch = "skip"
    /\ ChnameWrites = {}
    /\ slept = 0
    /\ devs.chname = << "timebase", "I0", "scint", "diode", "I000", "I00" >>

\* The subsystems of enable_user_calcs that are in the registry.
PresentCalcs ==
    {c \in {"user_calcouts", "user_calcs", "user_sseqs", "user_transforms"} :
        c \in Names(registry)}

\* C6: enable_user_calcs writes nothing but enable = 1, and only to
\* subsystems that are present; when it completes, exactly the present
\* subsystems have received the write; it never fails for a missing
\* subsystem, and with all four missing it completes without a write.
C6_PresentEnabled ==
    func = "enable_user_calcs" =>
        /\ \A w \in writes : w[1] \in PresentCalcs /\ w[2] = "enable" /\ w[3] = 1
        /\ swrites = {}
        /\ (pc = "ret" =>
              /\ writes = {<<c, "enable", 1>> : c \in PresentCalcs}
              /\ waited = PresentCalcs
              /\ \A c \in PresentCalcs : devs.enable[c] = 1)
        /\ (pc = "raise" =>
              /\ raised.op \in {"wait", "mv"}
              /\ raised.dev \in PresentCalcs)
        /\ (PresentCalcs = {} =>
              /\ pc \notin {"raise", "L117", "L119"}
              /\ writes = {} /\ waited = {})

\* C6 witness: the step completed with two subsystems present and two
\* missing.
C6_Witness ==
    /\ func = "enable_user_calcs"
    /\ pc = "ret"
    /\ PresentCalcs = {"user_calcs", "user_transforms"}
    /\ Cardinality(writes) = 2
    /\ devs.enable["user_calcouts"] = 0

\* The devices carrying the motor label.
Motors == {r.name : r \in {x \in registry : "motor" \in x.labels}}

\* What C7 says of the writes of change_motor_srev.
C7_Writes ==
    /\ \A w \in writes :
          /\ w[1] \in Motors
          /\ "steps_per_revolution" \in dir(w[1])
          /\ w[2] = "steps_per_revolution"
          /\ w[3] = srev
    /\ \A m \in waited : m \in Motors /\ "steps_per_revolution" \in dir(m)
    /\ swrites = {}
    /\ (InSetup => srev = 2000)
    /\ (pc = "ret" =>
          \A m \in Motors :
             /\ <<m, "steps_per_revolution", srev>> \in writes
                   <=> "steps_per_revolution" \in dir(m)
             /\ m \in waited <=> "steps_per_revolution" \in dir(m))

Sweeping ==
    /\ plan = "rate_effect"
    /\ \/ pc \in {"R13", "R16", "ret"}
       \/ pc = "raise" /\ raised.op # "lookup"
       \/ pc = "idle" /\ raised.op # "lookup"

\* rate_effect has completed.
Swept == plan = "rate_effect" /\ (pc = "ret" \/ (pc = "idle" /\ result = "finished"))

\* C8: for first <= last and last - first a multiple of step, the values of
\* the sweep are first, first + step, ..., last: (last - first) / step + 1
\* values, the last of them last; the rates written are an initial part of
\* them, every completed batch has npts measurements, and a completed plan
\* has written every value and taken one batch for each.  With the defaults
\* that is the 31 values 10..40, each with a batch of 10.
C8_InclusiveSweep ==
    /\ (plan = "rate_effect" /\ rargs.first <= rargs.last
          /\ (rargs.last - rargs.first) % rargs.step = 0) =>
          LET n == (rargs.last - rargs.first) \div rargs.step + 1
              expected == [k \in 1..n |-> rargs.first + (k - 1) * rargs.step]
          IN  /\ (Sweeping =>
                    /\ sweep = expected
                    /\ Len(sweep) = n
                    /\ sweep[n] = rargs.last
                    /\ \A k \in 1..Len(sweep) : sweep[k] <= rargs.last)
              /\ Len(rates) <= n
              /\ rates = SubSeq(expected, 1, Len(rates))
              /\ Len(batches) <= Len(rates)
              /\ Len(rates) <= Len(batches) + 1
              /\ \A k \in 1..Len(batches) : batches[k] = rargs.npts
              /\ (Swept => rates = expected /\ Len(batches) = n)
    /\ (Swept /\ rargs = [first |-> 10, last |-> 40, step |-> 1, npts |-> 10]) =>
          /\ rates = [k \in 1..31 |-> 9 + k]
          /\ batches = [k \in 1..31 |-> 10]

\* C8 witness: the plan completed with its defaults.
C8_Witness ==
    /\ plan = "rate_effect"
    /\ pc = "ret"
    /\ rargs = [first |-> 10, last |-> 40, step |-> 1, npts |-> 10]
    /\ Len(rates) = 31
    /\ rates[31] = 40

\* C9: every write a setup step has issued, to a device or to one of its
\* fields or sub-handles, is to a device whose wait_for_connection has
\* returned in that step; a step that ended at the lookup of a device or at
\* the wait for it has issued no write to that device.
C9_WaitBeforeWrite ==
    func # "none" =>
        /\ \A w \in writes : w[1] \in waited
        /\ \A w \in swrites : w[1] \in waited
        /\ (registered # {} => "scaler1" \in waited)
        /\ (pc = "raise" /\ raised.op \in {"lookup", "wait"} =>
              /\ raised.dev \notin waited
              /\ \A w \in writes : w[1] # raised.dev
              /\ \A w \in swrites : w[1] # raised.dev)

\* C9 witness: change_motor_srev wrote to m1 after its wait, and ended at
\* the wait for m3 without a write to m3.
C9_Witness ==
    /\ func = "change_motor_srev"
    /\ pc = "raise"
    /\ raised.op = "wait"
    /\ raised.dev = "m3"
    /\ writes = {<<"m1", "steps_per_revolution", 2000>>}
    /\ waited = {"m1"}

\* The six channel sub-handles with their labels.
SixHandles ==
    {[name |-> h, labels |-> {"channel", "counter"}] :
        h \in {"scaler1.channels.chan01.s", "scaler1.channels.chan02.s",
               "scaler1.channels.chan03.s", "scaler1.channels.chan04.s",
               "scaler1.channels.chan05.s", "scaler1.channels.chan06.s"}}

\* C10: the registry changes only in the registration loop of setup_scaler1,
\* and then only grows; a completed setup_scaler1 has registered the six
\* channel sub-handles, and nothing else, under {channel, counter}, whichever
\* way the naming branch went; a setup_scaler1 that ended at the lookup of
\* scaler1 or at the wait for it has registered nothing.
C10_RegistryFrame ==
    /\ [][registry' # registry =>
            /\ func = "setup_scaler1"
            /\ pc = "L210"
            /\ registry \subseteq registry'
            /\ registry' \ registry \subseteq SixHandles]_vars
    /\ [](func = "setup_scaler1" =>
            /\ registered \subseteq SixHandles
            /\ registered \subseteq registry
            /\ (pc = "ret" => registered = SixHandles)
            /\ (pc = "raise" /\ raised.op \in {"lookup", "wait"} => registered = {}))
    /\ [](func # "setup_scaler1" => registered = {} \/ registered = SixHandles)

\* C10 witness: the step named the channels, completed, and the six handles
\* are in the registry.
C10_Witness ==
    /\ func = "setup_scaler1"
    /\ pc = "ret"
    /\ branch = "assign"
    /\ Cardinality(registered) = 6
    /\ SixHandles \subseteq registry

InNoisy == func = "change_noisy_signal_parameters"

\* C11: in change_noisy_signal_parameters both devices are looked up before
\* either wait, m1 is waited for before user_calcs, the enable write comes
\* after both waits, the reset of calc1 after the enable write, and the
\* reconfiguration of calc1 after the reset.  calc1 changes in no other
\* step, and only when this run of the step has issued the enable write,
\* whatever enable_user_calcs did before.
C11_NoisyOrder ==
    /\ [](InNoisy =>
            /\ (waited # {} => {"m1", "user_calcs"} \subseteq Names(registry))
            /\ ("user_calcs" \in waited => "m1" \in waited)
            /\ (writes # {} =>
                  /\ writes = {<<"user_calcs", "enable", 1>>}
                  /\ waited = {"m1", "user_calcs"})
            /\ (<<"user_calcs", "calc1", "reset">> \in swrites =>
                  <<"user_calcs", "enable", 1>> \in writes)
            /\ (<<"user_calcs", "calc1", "setup_lorentzian_swait">> \in swrites =>
                  <<"user_calcs", "calc1", "reset">> \in swrites)
            /\ (pc = "ret" =>
                  /\ <<"user_calcs", "calc1", "setup_lorentzian_swait">> \in swrites
                  /\ devs.enable["user_calcs"] = 1
                  /\ devs.calc1 = "lorentzian"))
    /\ [][devs'.calc1 # devs.calc1 =>
            /\ InNoisy
            /\ <<"user_calcs", "enable", 1>> \in writes
            /\ devs.enable["user_calcs"] = 1
            /\ (devs'.calc1 = "lorentzian" =>
                  <<"user_calcs", "calc1", "reset">> \in swrites)]_vars

\* C11 witness: enable_user_calcs ended at its first wait without enabling
\* user_calcs, and change_noisy_signal_parameters then completed.
C11_Witness ==
    /\ InSetup
    /\ warnings = << 1 >>
    /\ InNoisy
    /\ pc = "ret"
    /\ writes = {<<"user_calcs", "enable", 1>>}
    /\ devs.calc1 = "lorentzian"
    /\ devs.enable["user_calcouts"] = 0

InRate == plan = "rate_effect"

\* C12: in rate_effect a rate is written only between batches, and the
\* batch of a value is measured only after that value has been written to
\* update_rate, which still holds it; the rates written increase; a
\* failure of bp.count ends the plan, and no rate is written after it.
C12_RateThenBatch ==
    /\ [](InRate =>
            /\ Len(batches) <= Len(rates)
            /\ Len(rates) <= Len(batches) + 1
            /\ (pc = "R13" => Len(rates) = Len(batches) /\ batch = 0)
            /\ (pc = "R16" =>
                  /\ Len(rates) = Len(batches) + 1
                  /\ devs.update_rate = rates[Len(rates)])
            /\ (batch > 0 => Len(rates) = Len(batches) + 1)
            /\ (\A k \in 1..(Len(rates) - 1) : rates[k] < rates[k + 1])
            /\ (raised.op = "count" =>
                  /\ pc \in {"raise", "idle"}
                  /\ Len(rates) = Len(batches) + 1))
    /\ [][rates' # rates =>
            /\ InRate /\ pc = "R13" /\ pc' = "R16"
            /\ batch = 0
            /\ Len(rates) = Len(batches)
            /\ Len(rates') = Len(rates) + 1
            /\ SubSeq(rates', 1, Len(rates)) = rates
            /\ devs'.update_rate = rates'[Len(rates')]]_vars
    /\ [][batch' > batch =>
            /\ InRate /\ pc = "R16"
            /\ Len(rates) = Len(batches) + 1
            /\ devs.update_rate = rates[Len(rates)]]_vars
    /\ [][(InRate /\ pc \in {"raise", "idle"}) =>
            /\ rates' = rates /\ batches' = batches /\ devs' = devs
            /\ pc' = "idle"]_vars

\* C12 witness: the second batch failed after one measurement with rates
\* still to come, and the plan ended with two rates written.
C12_Witness ==
    /\ InRate
    /\ pc = "idle" /\ result = "raised"
    /\ raised.op = "count"
    /\ Len(sweep) >= 3
    /\ Len(rates) = 2
    /\ Len(batches) = 1
    /\ batch = 1
    /\ devs.update_rate = sweep[2]

\* Position of each subsystem in the list of enable_user_calcs.
KeyIndex ==
    [c \in {"user_calcouts", "user_calcs", "user_sseqs", "user_transforms"} |->
        CASE c = "user_calcouts" -> 1
          [] c = "user_calcs" -> 2
          [] c = "user_sseqs" -> 3
          [] c = "user_transforms" -> 4]

\* enable_user_calcs has met a timeout of a wait.
CalcWaitTimedOut ==
    /\ func = "enable_user_calcs"
    /\ raised.op = "wait"

\* C13: a timeout of the wait for a present subsystem ends enable_user_calcs
\* at once: the present subsystems before it in the list have their enable
\* write, it and the subsystems after it have none, and the sequence logs
\* the failure and goes on to start change_motor_srev with the devices as
\* the step left them.
C13_TimeoutEndsEnableCalcs ==
    /\ [](CalcWaitTimedOut =>
            /\ raised.kind = "TimeoutError"
            /\ raised.dev \in PresentCalcs
            /\ pc \in {"raise", "L48", "idle"}
            /\ writes = {<<c, "enable", 1>> :
                           c \in {d \in PresentCalcs :
                                    KeyIndex[d] < KeyIndex[raised.dev]}}
            /\ \A c \in PresentCalcs :
                  KeyIndex[c] < KeyIndex[raised.dev] => devs.enable[c] = 1)
    /\ [][(CalcWaitTimedOut /\ InSetup /\ pc = "raise") =>
            /\ pc' = "L48" /\ idx' = 2
            /\ warnings' = << 1 >>
            /\ devs' = devs /\ writes' = writes]_vars
    /\ [][(CalcWaitTimedOut /\ InSetup /\ pc = "L48") =>
            /\ func' = "change_motor_srev"
            /\ started' = << "enable_user_calcs", "change_motor_srev" >>
            /\ devs' = devs]_vars

\* C13 witness: with all four subsystems present the wait for the third
\* timed out after two enable writes, and the sequence is about to start
\* change_motor_srev.
C13_Witness ==
    /\ InSetup
    /\ pc = "L48" /\ idx = 2
    /\ warnings = << 1 >>
    /\ raised = [kind |-> "TimeoutError", op |-> "wait", dev |-> "user_sseqs"]
    /\ PresentCalcs = {"user_calcouts", "user_calcs", "user_sseqs", "user_transforms"}
    /\ writes = {<<"user_calcouts", "enable", 1>>, <<"user_calcs", "enable", 1>>}
    /\ devs.enable["user_sseqs"] = 0 /\ devs.enable["user_transforms"] = 0

\* The sequence has ended.
SetupEnded == InSetup /\ pc = "idle"

\* C14: every run of _custom_controls_setup ends, having started at most
\* eight steps.  It ends at its last line exactly when no step ended with a
\* failure other than ComponentNotFound and TimeoutError: such a failure
\* ends the run at once as raised, and a run that has ended without one has
\* started all eight steps and finished.  With no device in the registry
\* the run finishes, every step but enable_user_calcs having been logged as
\* failed.
C14_Terminates ==
    /\ (InSetup /\ pc # "idle") ~> SetupEnded
    /\ [](InSetup => Len(started) <= 8 /\ Len(warnings) <= 8)
    /\ [](SetupEnded =>
            /\ result \in {"finished", "raised"}
            /\ (result = "finished" <=>
                  raised.kind \in {"none", "ComponentNotFound", "TimeoutError"})
            /\ (result = "finished" => Len(started) = 8 /\ idx = 9)
            /\ (registry = {} =>
                  result = "finished" /\ warnings = << 2, 3, 4, 5, 6, 7, 8 >>))
    /\ [][(InSetup /\ pc = "raise"
             /\ raised.kind \notin {"ComponentNotFound", "TimeoutError"}) =>
            (pc' = "idle" /\ result' = "raised" /\ raised' = raised)]_vars

\* C14 witness: with an empty registry the run has finished with seven
\* logged failures.
C14_Witness ==
    /\ SetupEnded
    /\ result = "finished"
    /\ registry = {}
    /\ Len(warnings) = 7
    /\ Len(started) = 8
====
